---- MODULE Spec2Model ----
(***************************************************************************)
(* A model of metagpt/team.py: the WorkflowOrchestrator (task queue,       *)
(* completed list, workflow registry) and the Team.run round loop.         *)
(***************************************************************************)
EXTENDS Integers, Sequences, FiniteSets, TLC

VARIABLES
    task_queue,         \* WorkflowOrchestrator.task_queue: list[TaskMessage]
    completed_tasks,    \* WorkflowOrchestrator.completed_tasks: list[TaskMessage]
    active_workflows,   \* WorkflowOrchestrator.active_workflows: dict[str, list[TaskMessage]]
    call,               \* the call made last: [op, wid, tasks] on the orchestrator
    ret,                \* what that call returned
    held,               \* caller: tasks get_next_task returned, not yet passed to complete_task
    removed_completed,  \* caller: tasks returned by get_next_task and then passed to complete_task
    arrivals,           \* the queued tasks in the order they were added
    enqueued,           \* the task ids that were put in task_queue at some time
    adding,             \* the add_task calls that have appended and not yet sorted
    team_pc,            \* where Team.run stands
    n_round,            \* Team.run's n_round
    investment,         \* Team.investment
    max_budget,         \* cost_manager.max_budget
    total_cost,         \* cost_manager.total_cost
    is_idle,            \* env.is_idle
    env_runs,           \* the number of times env.run was invoked
    archived,           \* the number of times env.archive was invoked
    raised,             \* the exception in flight inside run, "" when none
    outcome,            \* what the caller of run got: "", "history" or an exception
    rounds_asked,       \* the n_round argument run was called with
    runners,            \* the Teams running over one cost manager: each one's place in run
    callers,            \* the threads inside get_next_task or execute_workflow
    USERS,              \* app.py USERS: Dict[int, dict]
    COMPANIES,          \* app.py COMPANIES: Dict[int, dict]
    AGENTS,             \* app.py AGENTS: Dict[int, dict]
    WORKFLOWS,          \* app.py WORKFLOWS: Dict[int, dict]
    id_seq              \* app.py _id_seq: the last id given out, per kind

orch_vars == <<task_queue, completed_tasks, active_workflows, call, ret, held,
               removed_completed, arrivals, enqueued, adding>>

team_vars == <<team_pc, n_round, investment, max_budget, total_cost, is_idle,
               env_runs, archived, raised, outcome, rounds_asked, runners>>

registry_vars == <<USERS, COMPANIES, AGENTS, WORKFLOWS, id_seq>>

vars == <<orch_vars, team_vars, callers, registry_vars>>

(***************************************************************************)
(* Bounds of the model, and the values the callers draw their inputs from. *)
(***************************************************************************)
MaxQueue == 2        \* Spec: no call grows task_queue beyond this length
MaxCompleted == 2    \* Spec: no call grows completed_tasks beyond this length
QMaxQueue == 4       \* SpecQueue: no add_task grows task_queue beyond this length
MaxRounds == 3       \* SpecTeam: run is called with n_round up to this
MaxBudget == 2       \* SpecTeam: investment and max_budget range over 0..MaxBudget
MaxCost == 3         \* SpecTeam: total_cost ranges over 0..MaxCost
MaxAdding == 2       \* SpecConcurrent: the add_task calls in flight at one time
CMaxQueue == 3       \* SpecConcurrent: no add_task grows task_queue beyond this length
MaxCompanies == 2    \* SpecRegistry, SpecUsers: register_company is called up to this often
MaxAgents == 2       \* SpecRegistry: create_agent stores up to this many agents
MaxWorkflows == 1    \* SpecRegistry: create_workflow stores up to this many workflows
MaxUsers == 2        \* SpecUsers: register_user stores up to this many users

\* task_id is a str.
TaskIds == {"t1", "t2"}

\* The TaskMessages the callers of Spec pass: pydantic compares models field
\* by field, as TLA+ compares records, and the fields the orchestrator never
\* reads are left out. Two priorities, two tasks of equal priority, and two
\* tasks that share an id and differ in another field.
TaskMessage ==
    {[task_id |-> "t1", priority |-> 1],
     [task_id |-> "t2", priority |-> 5],
     [task_id |-> "t1", priority |-> 5]}

\* The tasks of SpecQueue: three priority levels, two tasks of each.
QueueTasks == [task_id : TaskIds, priority : {1, 2, 3}]

WorkflowIds == {"wf1", "unknown"}

\* The ids create_workflow is called with; "unknown" is never registered.
CreateIds == {"wf1"}

RECURSIVE SeqsUpTo(_, _)
SeqsUpTo(S, n) ==
    IF n = 0 THEN {<<>>}
    ELSE LET shorter == SeqsUpTo(S, n - 1)
         IN  shorter \cup {Append(s, x) : s \in {r \in shorter : Len(r) = n - 1}, x \in S}

\* The task lists create_workflow is called with: any that fits the queue.
TaskLists == SeqsUpTo(TaskMessage, MaxQueue)

Range(s) == {s[i] : i \in 1..Len(s)}

Ids(s) == {s[i].task_id : i \in 1..Len(s)}

(***************************************************************************)
(* list.sort(key=lambda t: t.priority, reverse=True): a stable sort by     *)
(* descending priority, computed by insertion.                             *)
(***************************************************************************)
\* The same with the ties the other way round: a sort that is not stable.
InsertBeforeEqual(sorted, t) ==
    LET after == {i \in 1..Len(sorted) : sorted[i].priority > t.priority}
        k == IF after = {} THEN 0 ELSE CHOOSE i \in after : \A j \in after : j <= i
    IN  SubSeq(sorted, 1, k) \o <<t>> \o SubSeq(sorted, k + 1, Len(sorted))

InsertByPriority(sorted, t) ==
    LET after == {i \in 1..Len(sorted) : sorted[i].priority >= t.priority}
        k == IF after = {} THEN 0 ELSE CHOOSE i \in after : \A j \in after : j <= i
    IN  SubSeq(sorted, 1, k) \o <<t>> \o SubSeq(sorted, k + 1, Len(sorted))

RECURSIVE sort_by_priority(_)
sort_by_priority(q) ==
    IF q = <<>> THEN <<>>
    ELSE InsertByPriority(sort_by_priority(SubSeq(q, 1, Len(q) - 1)), q[Len(q)])

\* add_task's effect on the queue: append, then sort.
QueueAfterAdd(q, t) == sort_by_priority(Append(q, t))

\* A create_workflow that registers the list and queues none of it.
AddNone(q, tasks) == q

RECURSIVE AddAll(_, _)
\* create_workflow's loop: add_task for each task of the list, in order.
AddAll(q, tasks) ==
    IF tasks = <<>> THEN q
    ELSE AddAll(QueueAfterAdd(q, Head(tasks)), Tail(tasks))

\* A complete_task that assigns where it should append
\* (completed_tasks = [task]).
OnlyLast(done, task) == <<task>>

\* complete_task's effect on the completed list.
CompletedAfter(done, task) == Append(done, task)

\* A get_next_task that pops the other end of the list (task_queue.pop()).
PopBack(q) == [task |-> q[Len(q)], queue |-> SubSeq(q, 1, Len(q) - 1)]

\* get_next_task's effect on a non-empty queue: task_queue.pop(0).
PopFront(q) == [task |-> Head(q), queue |-> Tail(q)]

\* The per-task result execute_workflow records.
TaskResult(t) == [task_id |-> t.task_id, status |-> "completed", result |-> "Task executed"]

RECURSIVE Drain(_, _, _)
\* execute_workflow's loop: get_next_task until it returns None; each task
\* gets a result and is passed to complete_task.
Drain(q, done, results) ==
    IF q = <<>> THEN [queue |-> q, completed |-> done, results |-> results]
    ELSE LET p == PopFront(q)
         IN  Drain(p.queue, CompletedAfter(done, p.task),
                   Append(results, TaskResult(p.task)))

RECURSIVE GCD(_, _)
GCD(a, b) == IF b = 0 THEN a ELSE GCD(b, a % b)

\* The quotient n / d (d > 0) as a fraction in lowest terms: two quotients
\* are the same number exactly when their fractions are equal.
Ratio(n, d) == LET g == GCD(n, d) IN <<n \div g, d \div g>>

RatioLeq(x, y) == x[1] * y[2] <= y[1] * x[2]

\* A get_workflow_status that reads an unregistered id as an empty workflow
\* (active_workflows.get(workflow_id, [])).
WorkflowStatusOfGet(wid, workflows, done, q) ==
    LET workflow_tasks == IF wid \in DOMAIN workflows THEN workflows[wid] ELSE <<>>
        completed == SelectSeq(workflow_tasks, LAMBDA t : t \in Range(done))
        pending == SelectSeq(workflow_tasks, LAMBDA t : t \in Range(q))
    IN  [status |-> "active",
         total_tasks |-> Len(workflow_tasks),
         completed |-> Len(completed),
         pending |-> Len(pending),
         progress |-> IF workflow_tasks # <<>>
                      THEN Ratio(Len(completed), Len(workflow_tasks))
                      ELSE Ratio(0, 1)]

\* The dict get_workflow_status returns.
WorkflowStatus(wid, workflows, done, q) ==
    IF wid \notin DOMAIN workflows THEN [status |-> "not_found"]
    ELSE LET workflow_tasks == workflows[wid]
             completed == SelectSeq(workflow_tasks, LAMBDA t : t \in Range(done))
             pending == SelectSeq(workflow_tasks, LAMBDA t : t \in Range(q))
         IN  [status |-> "active",
              total_tasks |-> Len(workflow_tasks),
              completed |-> Len(completed),
              pending |-> Len(pending),
              progress |-> IF workflow_tasks # <<>>
                           THEN Ratio(Len(completed), Len(workflow_tasks))
                           ELSE Ratio(0, 1)]

\* An execute_workflow that walks the workflow's own list, completing each
\* task, and never pops the queue.
ExecuteOwnList(wid, workflows, done, q) ==
    IF wid \notin DOMAIN workflows
    THEN [queue |-> q, completed |-> done, ret |-> [error |-> "Workflow not found"]]
    ELSE LET d == Drain(workflows[wid], done, <<>>)
         IN  [queue |-> q, completed |-> d.completed,
              ret |-> [workflow_id |-> wid, status |-> "completed", results |-> d.results]]

\* An execute_workflow that pops only the tasks of the named workflow and
\* leaves the rest of the queue.
ExecuteOwnTasks(wid, workflows, done, q) ==
    IF wid \notin DOMAIN workflows
    THEN [queue |-> q, completed |-> done, ret |-> [error |-> "Workflow not found"]]
    ELSE LET d == Drain(SelectSeq(q, LAMBDA t : t \in Range(workflows[wid])), done, <<>>)
         IN  [queue |-> SelectSeq(q, LAMBDA t : t \notin Range(workflows[wid])),
              completed |-> d.completed,
              ret |-> [workflow_id |-> wid, status |-> "completed", results |-> d.results]]

\* An execute_workflow without the check of the workflow id.
ExecuteAnyId(wid, workflows, done, q) ==
    LET d == Drain(q, done, <<>>)
    IN  [queue |-> d.queue, completed |-> d.completed,
         ret |-> [workflow_id |-> wid, status |-> "completed", results |-> d.results]]

\* The dict execute_workflow returns, with the queue and completed list it leaves.
ExecuteResult(wid, workflows, done, q) ==
    IF wid \notin DOMAIN workflows
    THEN [queue |-> q, completed |-> done, ret |-> [error |-> "Workflow not found"]]
    ELSE LET d == Drain(q, done, <<>>)
         IN  [queue |-> d.queue, completed |-> d.completed,
              ret |-> [workflow_id |-> wid, status |-> "completed", results |-> d.results]]

\* active_workflows[workflow_id] = tasks
Register(workflows, wid, tasks) ==
    [w \in DOMAIN workflows \cup {wid} |-> IF w = wid THEN tasks ELSE workflows[w]]

(***************************************************************************)
(* The orchestrator's operations.                                          *)
(***************************************************************************)
add_task(task) ==
    /\ task_queue' = QueueAfterAdd(task_queue, task)
    /\ call' = [op |-> "add_task", wid |-> "", tasks |-> <<task>>]
    /\ ret' = [status |-> "None"]
    /\ UNCHANGED <<completed_tasks, active_workflows>>

get_next_task ==
    /\ call' = [op |-> "get_next_task", wid |-> "", tasks |-> <<>>]
    /\ IF task_queue # <<>>
       THEN /\ task_queue' = PopFront(task_queue).queue
            /\ ret' = [status |-> "task", task |-> PopFront(task_queue).task]
       ELSE /\ task_queue' = task_queue
            /\ ret' = [status |-> "None"]
    /\ UNCHANGED <<completed_tasks, active_workflows>>

complete_task(task) ==
    /\ completed_tasks' = CompletedAfter(completed_tasks, task)
    /\ call' = [op |-> "complete_task", wid |-> "", tasks |-> <<task>>]
    /\ ret' = [status |-> "None"]
    /\ UNCHANGED <<task_queue, active_workflows>>

create_workflow(workflow_id, tasks) ==
    /\ active_workflows' = Register(active_workflows, workflow_id, tasks)
    /\ task_queue' = AddAll(task_queue, tasks)
    /\ call' = [op |-> "create_workflow", wid |-> workflow_id, tasks |-> tasks]
    /\ ret' = [status |-> "None"]
    /\ UNCHANGED completed_tasks

get_workflow_status(workflow_id) ==
    /\ call' = [op |-> "get_workflow_status", wid |-> workflow_id, tasks |-> <<>>]
    /\ ret' = WorkflowStatus(workflow_id, active_workflows, completed_tasks, task_queue)
    /\ UNCHANGED <<task_queue, completed_tasks, active_workflows>>

execute_workflow(workflow_id) ==
    LET r == ExecuteResult(workflow_id, active_workflows, completed_tasks, task_queue)
    IN  /\ call' = [op |-> "execute_workflow", wid |-> workflow_id, tasks |-> <<>>]
        /\ task_queue' = r.queue
        /\ completed_tasks' = r.completed
        /\ ret' = r.ret
        /\ UNCHANGED active_workflows

(***************************************************************************)
(* Spec: one orchestrator, constructed empty, called by one caller with    *)
(* any tasks and workflow ids, in any order.                               *)
(***************************************************************************)
NoCall == [op |-> "__init__", wid |-> "", tasks |-> <<>>]

\* WorkflowOrchestrator(): every field from its default_factory.
InitOrchestrator ==
    /\ task_queue = <<>>
    /\ completed_tasks = <<>>
    /\ active_workflows = <<>>
    /\ call = NoCall
    /\ ret = [status |-> "None"]
    /\ held = {}
    /\ removed_completed = {}
    /\ arrivals = <<>>
    /\ enqueued = {}
    /\ adding = 0

\* No Team is running beside the orchestrator.
NoTeam ==
    /\ team_pc = "idle"
    /\ n_round = 0
    /\ investment = 0
    /\ max_budget = 0
    /\ total_cost = 0
    /\ is_idle = TRUE
    /\ env_runs = 0
    /\ archived = 0
    /\ raised = ""
    /\ outcome = ""
    /\ rounds_asked = 0
    /\ runners = <<>>

\* No thread is inside the orchestrator.
NoCallers == callers = <<>>

\* app.py as imported: empty stores, every counter at 0 (lines 23-28).
InitRegistry ==
    /\ USERS = <<>>
    /\ COMPANIES = <<>>
    /\ AGENTS = <<>>
    /\ WORKFLOWS = <<>>
    /\ id_seq = [user |-> 0, company |-> 0, agent |-> 0, workflow |-> 0]

Init == InitOrchestrator /\ NoTeam /\ NoCallers /\ InitRegistry

AddTaskCall ==
    \E t \in TaskMessage :
        /\ Len(task_queue) < MaxQueue
        /\ add_task(t)
        /\ UNCHANGED <<held, removed_completed, arrivals, enqueued, adding>>

GetNextTaskCall ==
    /\ get_next_task
    /\ UNCHANGED <<held, removed_completed, arrivals, enqueued, adding>>

CompleteTaskCall ==
    \E t \in TaskMessage :
        /\ Len(completed_tasks) < MaxCompleted
        /\ complete_task(t)
        /\ UNCHANGED <<held, removed_completed, arrivals, enqueued, adding>>

CreateWorkflowCall ==
    \E wid \in CreateIds, tasks \in TaskLists :
        /\ Len(task_queue) + Len(tasks) <= MaxQueue
        /\ create_workflow(wid, tasks)
        /\ UNCHANGED <<held, removed_completed, arrivals, enqueued, adding>>

GetWorkflowStatusCall ==
    \E wid \in WorkflowIds :
        /\ get_workflow_status(wid)
        /\ UNCHANGED <<held, removed_completed, arrivals, enqueued, adding>>

ExecuteWorkflowCall ==
    \E wid \in WorkflowIds :
        /\ wid \in DOMAIN active_workflows
              => Len(completed_tasks) + Len(task_queue) <= MaxCompleted
        /\ execute_workflow(wid)
        /\ UNCHANGED <<held, removed_completed, arrivals, enqueued, adding>>

Next ==
    \/ AddTaskCall /\ UNCHANGED <<team_vars, callers, registry_vars>>
    \/ GetNextTaskCall /\ UNCHANGED <<team_vars, callers, registry_vars>>
    \/ CompleteTaskCall /\ UNCHANGED <<team_vars, callers, registry_vars>>
    \/ CreateWorkflowCall /\ UNCHANGED <<team_vars, callers, registry_vars>>
    \/ GetWorkflowStatusCall /\ UNCHANGED <<team_vars, callers, registry_vars>>
    \/ ExecuteWorkflowCall /\ UNCHANGED <<team_vars, callers, registry_vars>>

Spec == Init /\ [][Next]_vars

(***************************************************************************)
(* SpecQueue: the queue alone, under add_task and get_next_task, with the  *)
(* order of arrival of the queued tasks kept beside it.                    *)
(***************************************************************************)
\* s without its first element equal to t.
RemoveFirst(s, t) ==
    LET at == {i \in 1..Len(s) : s[i] = t}
        k == CHOOSE i \in at : \A j \in at : i <= j
    IN  IF at = {} THEN s ELSE SubSeq(s, 1, k - 1) \o SubSeq(s, k + 1, Len(s))

QAddTask ==
    \E t \in QueueTasks :
        /\ Len(task_queue) < QMaxQueue
        /\ add_task(t)
        /\ arrivals' = Append(arrivals, t)
        /\ UNCHANGED <<held, removed_completed, enqueued, adding>>

QGetNextTask ==
    /\ get_next_task
    /\ arrivals' = IF task_queue # <<>> THEN RemoveFirst(arrivals, Head(task_queue))
                   ELSE arrivals
    /\ UNCHANGED <<held, removed_completed, enqueued, adding>>

NextQueue ==
    \/ QAddTask /\ UNCHANGED <<team_vars, callers, registry_vars>>
    \/ QGetNextTask /\ UNCHANGED <<team_vars, callers, registry_vars>>

SpecQueue == Init /\ [][NextQueue]_vars

\* Among the tasks of s of maximum priority, the one that comes first.
EarliestMax(s) ==
    LET top == {i \in 1..Len(s) : \A j \in 1..Len(s) : s[j].priority <= s[i].priority}
    IN  s[CHOOSE i \in top : \A j \in top : i <= j]

\* C1: every get_next_task on a non-empty queue returns a task of maximum
\* priority among the queued tasks, and among those of that priority the one
\* added earliest.
C1_PopsMaxPriorityEarliest ==
    [][(call'.op = "get_next_task" /\ task_queue # <<>>)
        => /\ ret'.status = "task"
           /\ \A i \in 1..Len(task_queue) : task_queue[i].priority <= ret'.task.priority
           /\ ret'.task = EarliestMax(arrivals)]_vars

\* C1's scenario: priorities 1, 3, 3, 2 added in that order; the first pop
\* returned the first of the two 3s, leaving second-3, 2, 1.
C1_Witness ==
    /\ call.op = "get_next_task"
    /\ ret = [status |-> "task", task |-> [task_id |-> "t1", priority |-> 3]]
    /\ arrivals = <<[task_id |-> "t1", priority |-> 1], [task_id |-> "t2", priority |-> 3],
                    [task_id |-> "t2", priority |-> 2]>>
    /\ task_queue = <<[task_id |-> "t2", priority |-> 3], [task_id |-> "t2", priority |-> 2],
                      [task_id |-> "t1", priority |-> 1]>>

(***************************************************************************)
(* Team: invest, and the round loop of run.                                *)
(***************************************************************************)
\* _check_balance raises when this holds, with > in place of >=.
OverBudget(cost, budget) == cost > budget

\* _check_balance raises when this holds.
InsufficientFunds(cost, budget) == cost >= budget

\* What one env.run may add to total_cost: the roles' spending, any amount
\* that keeps total_cost within the model's range.
CostsAfterRun(cost) == cost..MaxCost

\* serialize_decorator around run: the exception raised inside run reaches
\* the caller of run.
serialize_decorator(exception) == exception

invest(amount) ==
    /\ team_pc = "idle"
    /\ investment' = amount
    /\ max_budget' = amount
    /\ UNCHANGED <<team_pc, n_round, total_cost, is_idle, env_runs, archived, raised, outcome,
                   rounds_asked, runners>>

\* run(n_round=n) is called.
run(n) ==
    /\ team_pc = "idle"
    /\ n_round' = n
    /\ rounds_asked' = n
    /\ team_pc' = "while"
    /\ UNCHANGED <<investment, max_budget, total_cost, is_idle, env_runs, archived, raised,
                   outcome, runners>>

\* A loop without the idle check: it goes on while rounds are left.
LoopHeadNoIdleCheck ==
    /\ team_pc = "while"
    /\ team_pc' = IF n_round > 0 THEN "decrement" ELSE "archive"
    /\ UNCHANGED <<n_round, investment, max_budget, total_cost, is_idle, env_runs, archived,
                   raised, outcome, rounds_asked, runners>>

\* while n_round > 0: if self.env.is_idle: break
LoopHead ==
    /\ team_pc = "while"
    /\ team_pc' = IF n_round > 0 /\ ~is_idle THEN "decrement" ELSE "archive"
    /\ UNCHANGED <<n_round, investment, max_budget, total_cost, is_idle, env_runs, archived,
                   raised, outcome, rounds_asked, runners>>

\* A loop that forgets n_round -= 1.
NoDecrement ==
    /\ team_pc = "decrement"
    /\ team_pc' = "check_balance"
    /\ UNCHANGED <<n_round, investment, max_budget, total_cost, is_idle, env_runs, archived,
                   raised, outcome, rounds_asked, runners>>

\* n_round -= 1
Decrement ==
    /\ team_pc = "decrement"
    /\ n_round' = n_round - 1
    /\ team_pc' = "check_balance"
    /\ UNCHANGED <<investment, max_budget, total_cost, is_idle, env_runs, archived, raised,
                   outcome, rounds_asked, runners>>

\* self._check_balance()
CheckBalance ==
    /\ team_pc = "check_balance"
    /\ IF InsufficientFunds(total_cost, max_budget)
       THEN raised' = "NoMoneyException" /\ team_pc' = "raised"
       ELSE raised' = raised /\ team_pc' = "env_run"
    /\ UNCHANGED <<n_round, investment, max_budget, total_cost, is_idle, env_runs, archived,
                   outcome, rounds_asked, runners>>

\* await self.env.run(): the roles act, spend, and are idle or not after it.
EnvRun ==
    /\ team_pc = "env_run"
    /\ env_runs' = env_runs + 1
    /\ total_cost' \in CostsAfterRun(total_cost)
    /\ is_idle' \in BOOLEAN
    /\ team_pc' = "while"
    /\ UNCHANGED <<n_round, investment, max_budget, archived, raised, outcome, rounds_asked,
                   runners>>

\* self.env.archive(auto_archive); return self.env.history
Archive ==
    /\ team_pc = "archive"
    /\ archived' = archived + 1
    /\ outcome' = "history"
    /\ team_pc' = "done"
    /\ UNCHANGED <<n_round, investment, max_budget, total_cost, is_idle, env_runs, raised,
                   rounds_asked, runners>>

\* The exception leaves run through its decorator.
Propagate ==
    /\ team_pc = "raised"
    /\ outcome' = serialize_decorator(raised)
    /\ team_pc' = "done"
    /\ UNCHANGED <<n_round, investment, max_budget, total_cost, is_idle, env_runs, archived,
                   raised, rounds_asked, runners>>

\* A Team with any investment, over a cost manager with any budget and any
\* cost so far, and an environment idle or not.
InitTeam ==
    /\ team_pc = "idle"
    /\ n_round = 0
    /\ investment \in 0..MaxBudget
    /\ max_budget \in 0..MaxBudget
    /\ total_cost \in 0..MaxCost
    /\ is_idle \in BOOLEAN
    /\ env_runs = 0
    /\ archived = 0
    /\ raised = ""
    /\ outcome = ""
    /\ rounds_asked = 0
    /\ runners = <<>>

NextTeam ==
    \/ (\E amount \in 0..MaxBudget : invest(amount)) /\ UNCHANGED <<orch_vars, callers, registry_vars>>
    \/ (\E n \in -1..MaxRounds : run(n)) /\ UNCHANGED <<orch_vars, callers, registry_vars>>
    \/ LoopHead /\ UNCHANGED <<orch_vars, callers, registry_vars>>
    \/ Decrement /\ UNCHANGED <<orch_vars, callers, registry_vars>>
    \/ CheckBalance /\ UNCHANGED <<orch_vars, callers, registry_vars>>
    \/ EnvRun /\ UNCHANGED <<orch_vars, callers, registry_vars>>
    \/ Archive /\ UNCHANGED <<orch_vars, callers, registry_vars>>
    \/ Propagate /\ UNCHANGED <<orch_vars, callers, registry_vars>>

\* A Team beside a freshly constructed orchestrator.
InitWithTeam == InitOrchestrator /\ InitTeam /\ NoCallers /\ InitRegistry

SpecTeam == InitWithTeam /\ [][NextTeam]_vars

\* C4: when total_cost >= max_budget at the balance check of a round, run
\* raises NoMoneyException, which reaches its caller, env.run is not invoked
\* for that round, and no later round runs: env.run is invoked only with
\* total_cost < max_budget, and never after the exception.
C4_BudgetLaw ==
    /\ [](team_pc = "env_run" => total_cost < max_budget)
    /\ [][/\ (team_pc = "check_balance" /\ total_cost >= max_budget)
             => (raised' = "NoMoneyException" /\ team_pc' = "raised"
                 /\ env_runs' = env_runs)
          /\ raised = "NoMoneyException"
             => (env_runs' = env_runs /\ outcome' = "NoMoneyException"
                 /\ team_pc' = "done")]_vars

\* run spent the budget in its first round and aborted before the second,
\* with a round left.
C4_Witness ==
    /\ team_pc = "done"
    /\ outcome = "NoMoneyException"
    /\ env_runs = 1
    /\ n_round > 0
    /\ total_cost >= max_budget

\* C12: env.run is never invoked in a state where total_cost >= the Team's
\* investment, whether investment was given at construction or by invest.
C12_NoRoundAtOrOverInvestment == team_pc = "env_run" => total_cost < investment

\* C15: when run has ended, by idle state, by round limit or by the
\* out-of-funds abort, env.archive was invoked exactly once, and a run that
\* raised nothing returned the history.
C15_ArchivedOnceOnEveryExit ==
    team_pc = "done" => (archived = 1 /\ (raised = "" => outcome = "history"))

(***************************************************************************)
(* SpecTeamFair: SpecTeam where a run that was called goes on: the         *)
(* interpreter takes the next step of run, and env.run returns.            *)
(***************************************************************************)
SpecTeamFair ==
    /\ InitWithTeam
    /\ [][NextTeam]_vars
    /\ WF_vars(LoopHead /\ UNCHANGED <<orch_vars, callers, registry_vars>>)
    /\ WF_vars(Decrement /\ UNCHANGED <<orch_vars, callers, registry_vars>>)
    /\ WF_vars(CheckBalance /\ UNCHANGED <<orch_vars, callers, registry_vars>>)
    /\ WF_vars(EnvRun /\ UNCHANGED <<orch_vars, callers, registry_vars>>)
    /\ WF_vars(Archive /\ UNCHANGED <<orch_vars, callers, registry_vars>>)
    /\ WF_vars(Propagate /\ UNCHANGED <<orch_vars, callers, registry_vars>>)

AtLeastZero(n) == IF n > 0 THEN n ELSE 0

\* C14, as claimed: a run that has ended stopped because the environment
\* was idle or because the round counter had reached 0.
C14_RunStopsOnlyByIdleOrRoundLimit == team_pc = "done" => (is_idle \/ n_round <= 0)

\* C14, amended: run, once called, ends; it invokes env.run at most n_round
\* times (never for n_round <= 0); at the head of the loop it leaves for the
\* archive as soon as the environment is idle or the counter is 0; and it
\* ends by returning the history, idle or with the counter at 0, or else by
\* the NoMoneyException of the balance check.
C14_RunTerminates ==
    /\ (team_pc = "while") ~> (team_pc = "done")
    /\ [](team_pc # "idle" => env_runs + AtLeastZero(n_round) <= AtLeastZero(rounds_asked))
    /\ [][team_pc = "while"
             => team_pc' = IF is_idle \/ n_round <= 0 THEN "archive" ELSE "decrement"]_vars
    /\ [](team_pc = "done"
             => \/ outcome = "history" /\ (is_idle \/ n_round <= 0)
                \/ outcome = "NoMoneyException" /\ total_cost >= max_budget)

\* run(2) ended by its round limit: two rounds, the environment still busy.
C14_Witness ==
    /\ team_pc = "done"
    /\ outcome = "history"
    /\ rounds_asked = 2
    /\ env_runs = 2
    /\ n_round = 0
    /\ ~is_idle

(***************************************************************************)
(* SpecInvest: SpecTeam where the write of invest to the cost manager may  *)
(* fail, with the call and what it returned kept in call and ret.          *)
(***************************************************************************)
\* invest where line 87 raises: line 86 has assigned self.investment.
invest_raises(amount) ==
    /\ team_pc = "idle"
    /\ investment' = amount
    /\ UNCHANGED <<team_pc, n_round, max_budget, total_cost, is_idle, env_runs, archived,
                   raised, outcome, rounds_asked, runners>>

InvestReturns ==
    \E amount \in 0..MaxBudget :
        /\ invest(amount)
        /\ call' = [op |-> "invest", amount |-> amount]
        /\ ret' = [status |-> "None"]
        /\ UNCHANGED <<task_queue, completed_tasks, active_workflows, held,
                       removed_completed, arrivals, enqueued, adding, callers, registry_vars>>

InvestRaises ==
    \E amount \in 0..MaxBudget :
        /\ invest_raises(amount)
        /\ call' = [op |-> "invest", amount |-> amount]
        /\ ret' = [status |-> "raised"]
        /\ UNCHANGED <<task_queue, completed_tasks, active_workflows, held,
                       removed_completed, arrivals, enqueued, adding, callers, registry_vars>>

NextInvest ==
    \/ InvestReturns
    \/ InvestRaises
    \/ (\E n \in -1..MaxRounds : run(n)) /\ UNCHANGED <<orch_vars, callers, registry_vars>>
    \/ LoopHead /\ UNCHANGED <<orch_vars, callers, registry_vars>>
    \/ Decrement /\ UNCHANGED <<orch_vars, callers, registry_vars>>
    \/ CheckBalance /\ UNCHANGED <<orch_vars, callers, registry_vars>>
    \/ EnvRun /\ UNCHANGED <<orch_vars, callers, registry_vars>>
    \/ Archive /\ UNCHANGED <<orch_vars, callers, registry_vars>>
    \/ Propagate /\ UNCHANGED <<orch_vars, callers, registry_vars>>

SpecInvest == InitWithTeam /\ [][NextInvest]_vars

\* C13: after an invest that returns, investment and max_budget both equal
\* the amount; after one whose write fails, they do not differ.
C13_InvestLeavesCeilingsEqual ==
    [][(team_pc = "idle" /\ call'.op = "invest")
        => /\ investment' = max_budget'
           /\ ret'.status = "None"
                 => (investment' = call'.amount /\ max_budget' = call'.amount)]_vars

(***************************************************************************)
(* Properties of Spec.                                                     *)
(***************************************************************************)
Registered(wid) == wid \in DOMAIN active_workflows

StatusNow(wid) == WorkflowStatus(wid, active_workflows, completed_tasks, task_queue)

QueueDisjointCompleted == Ids(task_queue) \cap Ids(completed_tasks) = {}

\* The call that is returning neither queues a task whose id is in
\* completed_tasks nor completes a task whose id is in task_queue.
ProperCall ==
    /\ call'.op \in {"add_task", "create_workflow"}
          => Ids(call'.tasks) \cap Ids(completed_tasks) = {}
    /\ call'.op = "complete_task" => Ids(call'.tasks) \cap Ids(task_queue) = {}

\* C2, as claimed: in every reachable state no task in task_queue has an id
\* that also appears in completed_tasks.
C2_QueueNeverHoldsCompletedId == QueueDisjointCompleted

\* C2, amended: every call keeps task_queue free of completed ids, unless it
\* is an add_task or create_workflow given a task whose id is already in
\* completed_tasks or a complete_task given a task whose id is still queued.
C2_ProperCallsKeepQueueFreeOfCompletedIds ==
    [][(QueueDisjointCompleted /\ ProperCall) => QueueDisjointCompleted']_vars

\* A task was completed, by a proper call, while another is queued.
C2_Witness ==
    /\ call.op = "complete_task"
    /\ task_queue # <<>>
    /\ completed_tasks # <<>>
    /\ QueueDisjointCompleted

\* C3: execute_workflow with a registered id empties the whole queue, front
\* (highest priority) first, records one result per popped task in pop
\* order, appends each popped task to completed_tasks, and leaves every
\* workflow whose tasks were all queued with completed == total.
C3_ExecuteDrainsWholeQueue ==
    [][(call'.op = "execute_workflow" /\ Registered(call'.wid))
        => /\ task_queue' = <<>>
           /\ completed_tasks' = completed_tasks \o task_queue
           /\ \A i, j \in 1..Len(task_queue) :
                 i < j => task_queue[i].priority >= task_queue[j].priority
           /\ ret'.workflow_id = call'.wid
           /\ ret'.status = "completed"
           /\ Len(ret'.results) = Len(task_queue)
           /\ \A i \in 1..Len(task_queue) :
                 /\ ret'.results[i].task_id = task_queue[i].task_id
                 /\ ret'.results[i].status = "completed"
           /\ \A w \in DOMAIN active_workflows :
                 Range(active_workflows[w]) \subseteq Range(task_queue)
                    => /\ StatusNow(w)'.completed = StatusNow(w)'.total_tasks
                       /\ active_workflows[w] # <<>> => StatusNow(w)'.progress = <<1, 1>>]_vars

\* C3's scenario: wf1 = [t1 priority 1, t2 priority 5] on an otherwise empty
\* queue was executed: t2 then t1 popped, completed = 2, progress = 1.0.
C3_Witness ==
    /\ call = [op |-> "execute_workflow", wid |-> "wf1", tasks |-> <<>>]
    /\ Registered("wf1")
    /\ active_workflows["wf1"] = <<[task_id |-> "t1", priority |-> 1],
                                   [task_id |-> "t2", priority |-> 5]>>
    /\ completed_tasks = <<[task_id |-> "t2", priority |-> 5],
                           [task_id |-> "t1", priority |-> 1]>>
    /\ task_queue = <<>>
    /\ Len(ret.results) = 2
    /\ ret.results[1].task_id = "t2"
    /\ ret.results[2].task_id = "t1"
    /\ StatusNow("wf1").completed = 2
    /\ StatusNow("wf1").progress = <<1, 1>>

\* C5, as claimed: get_workflow_status(id) right after create_workflow(id,
\* tasks) reports pending == len(tasks), completed == 0 and progress == 0.
C5_FreshWorkflowReportsNothingCompleted ==
    [][(call.op = "create_workflow" /\ call'.op = "get_workflow_status"
        /\ call'.wid = call.wid)
        => /\ ret'.pending = Len(call.tasks)
           /\ ret'.completed = 0
           /\ ret'.progress = <<0, 1>>]_vars

\* C5, amended: it reports pending == len(tasks), and completed == 0 and
\* progress == 0 when no task of the list is in completed_tasks already.
C5_FreshWorkflowStatus ==
    [][(call.op = "create_workflow" /\ call'.op = "get_workflow_status"
        /\ call'.wid = call.wid)
        => /\ ret'.status = "active"
           /\ ret'.total_tasks = Len(call.tasks)
           /\ ret'.pending = Len(call.tasks)
           /\ Range(call.tasks) \cap Range(completed_tasks) = {}
                 => (ret'.completed = 0 /\ ret'.progress = <<0, 1>>)]_vars

\* A workflow of two tasks was just created beside a completed task that is
\* not one of its own; its status is pending 2, completed 0.
C5_Witness ==
    /\ call.op = "create_workflow"
    /\ Len(call.tasks) = 2
    /\ completed_tasks # <<>>
    /\ Range(call.tasks) \cap Range(completed_tasks) = {}
    /\ StatusNow(call.wid).pending = 2
    /\ StatusNow(call.wid).completed = 0
    /\ StatusNow(call.wid).progress = <<0, 1>>

\* C7: the progress of a registered workflow never decreases from one state
\* to the next and never exceeds 1, and complete_task on a task already in
\* completed_tasks changes nothing get_workflow_status reports.
C7_ProgressNeverDecreases ==
    [][\A w \in DOMAIN active_workflows :
          /\ RatioLeq(StatusNow(w).progress, StatusNow(w)'.progress)
          /\ RatioLeq(StatusNow(w)'.progress, <<1, 1>>)
          /\ (call'.op = "complete_task" /\ call'.tasks[1] \in Range(completed_tasks))
                => StatusNow(w)' = StatusNow(w)]_vars

\* C8: create_workflow with a registered id fails with "already exists" and
\* leaves the registered workflow and the queue as they were.
C8_DuplicateWorkflowIdRejected ==
    [][(call'.op = "create_workflow" /\ Registered(call'.wid))
        => /\ ret'.status = "already exists"
           /\ active_workflows' = active_workflows
           /\ task_queue' = task_queue]_vars

\* C9: execute_workflow with an unregistered id returns the not-found value
\* and changes neither task_queue, completed_tasks nor active_workflows.
C9_ExecuteUnknownChangesNothing ==
    [][(call'.op = "execute_workflow" /\ ~Registered(call'.wid))
        => /\ ret' = [error |-> "Workflow not found"]
           /\ UNCHANGED <<task_queue, completed_tasks, active_workflows>>]_vars

\* execute_workflow returned not-found while tasks were queued.
C9_Witness ==
    /\ call.op = "execute_workflow"
    /\ ~Registered(call.wid)
    /\ ret = [error |-> "Workflow not found"]
    /\ task_queue # <<>>

\* C10: get_workflow_status with an unregistered id returns status
\* not_found and changes no orchestrator state.
C10_StatusUnknownIsNotFound ==
    [][(call'.op = "get_workflow_status" /\ ~Registered(call'.wid))
        => /\ ret' = [status |-> "not_found"]
           /\ UNCHANGED <<task_queue, completed_tasks, active_workflows>>]_vars

\* get_workflow_status returned not_found on an orchestrator that holds a
\* registered workflow, queued tasks and completed tasks.
C10_Witness ==
    /\ call = [op |-> "get_workflow_status", wid |-> "unknown", tasks |-> <<>>]
    /\ ret = [status |-> "not_found"]
    /\ Registered("wf1")
    /\ task_queue # <<>>
    /\ completed_tasks # <<>>

\* C11: get_next_task on an empty queue returns None and changes neither
\* task_queue, completed_tasks nor active_workflows; on a non-empty queue it
\* returns the front of the queue and leaves the rest of the queue, one task
\* shorter, in its order.
C11_GetNextTaskPopsFrontOrReturnsNone ==
    [][call'.op = "get_next_task"
        => /\ UNCHANGED <<completed_tasks, active_workflows>>
           /\ task_queue = <<>> => (ret' = [status |-> "None"] /\ task_queue' = <<>>)
           /\ task_queue # <<>>
                 => /\ ret' = [status |-> "task", task |-> Head(task_queue)]
                    /\ Len(task_queue') = Len(task_queue) - 1
                    /\ task_queue' = Tail(task_queue)]_vars

\* get_next_task returned None on an orchestrator whose queue was drained
\* and that holds a workflow and completed tasks.
C11_Witness ==
    /\ call.op = "get_next_task"
    /\ ret = [status |-> "None"]
    /\ task_queue = <<>>
    /\ completed_tasks # <<>>
    /\ Registered("wf1")
    /\ active_workflows["wf1"] # <<>>

(***************************************************************************)
(* SpecCaller: Spec, with the caller's record of the tasks it took with    *)
(* get_next_task (held) and of those it then passed to complete_task       *)
(* (removed_completed). The drain of execute_workflow takes and completes  *)
(* each task the same way.                                                 *)
(***************************************************************************)
\* The tasks the caller of SpecCaller passes, and its task lists.
CallerTasks ==
    {[task_id |-> "t1", priority |-> 1],
     [task_id |-> "t2", priority |-> 5]}

CallerLists == SeqsUpTo(CallerTasks, MaxQueue)

CAddTask ==
    \E t \in CallerTasks :
        /\ Len(task_queue) < MaxQueue
        /\ add_task(t)
        /\ UNCHANGED <<held, removed_completed, arrivals, enqueued, adding>>
        /\ UNCHANGED <<team_vars, callers, registry_vars>>

CGetNextTask ==
    /\ get_next_task
    /\ held' = IF task_queue # <<>> THEN held \cup {Head(task_queue)} ELSE held
    /\ UNCHANGED <<removed_completed, arrivals, enqueued, adding>>
    /\ UNCHANGED <<team_vars, callers, registry_vars>>

CCompleteTask ==
    \E t \in CallerTasks :
        /\ Len(completed_tasks) < MaxCompleted
        /\ complete_task(t)
        /\ held' = held \ {t}
        /\ removed_completed' = IF t \in held THEN removed_completed \cup {t}
                                ELSE removed_completed
        /\ UNCHANGED <<arrivals, enqueued, adding>>
        /\ UNCHANGED <<team_vars, callers, registry_vars>>

CCreateWorkflow ==
    \E wid \in CreateIds, tasks \in CallerLists :
        /\ Len(task_queue) + Len(tasks) <= MaxQueue
        /\ create_workflow(wid, tasks)
        /\ UNCHANGED <<held, removed_completed, arrivals, enqueued, adding>>
        /\ UNCHANGED <<team_vars, callers, registry_vars>>

CGetWorkflowStatus ==
    /\ GetWorkflowStatusCall
    /\ UNCHANGED <<team_vars, callers, registry_vars>>

CExecuteWorkflow ==
    \E wid \in WorkflowIds :
        /\ Registered(wid) => Len(completed_tasks) + Len(task_queue) <= MaxCompleted
        /\ execute_workflow(wid)
        /\ removed_completed' = IF Registered(wid)
                                THEN removed_completed \cup Range(task_queue)
                                ELSE removed_completed
        /\ UNCHANGED <<held, arrivals, enqueued, adding>>
        /\ UNCHANGED <<team_vars, callers, registry_vars>>

NextCaller ==
    \/ CAddTask
    \/ CGetNextTask
    \/ CCompleteTask
    \/ CCreateWorkflow
    \/ CGetWorkflowStatus
    \/ CExecuteWorkflow

SpecCaller == Init /\ [][NextCaller]_vars

\* get_workflow_status has just answered for a registered workflow whose
\* tasks were all taken with get_next_task and passed to complete_task.
DrainedWorkflowQueried ==
    /\ call.op = "get_workflow_status"
    /\ Registered(call.wid)
    /\ Range(active_workflows[call.wid]) \subseteq removed_completed

\* C6, as claimed: for any task list, once every task of a registered
\* workflow was removed with get_next_task and passed to complete_task,
\* get_workflow_status reports completed == total_tasks and progress == 1.
C6_DrainedWorkflowReportsProgressOne ==
    DrainedWorkflowQueried
        => (ret.completed = ret.total_tasks /\ ret.progress = <<1, 1>>)

\* C6, amended: it reports completed == total_tasks, and progress == 1 for a
\* workflow that has tasks and 0 for one that has none.
C6_DrainedWorkflowReportsAllCompleted ==
    DrainedWorkflowQueried
        => /\ ret.status = "active"
           /\ ret.completed = ret.total_tasks
           /\ ret.total_tasks = Len(active_workflows[call.wid])
           /\ ret.progress = IF active_workflows[call.wid] # <<>> THEN <<1, 1>> ELSE <<0, 1>>

\* A workflow of two tasks was drained by get_next_task and complete_task,
\* none of it by execute_workflow, and then queried.
C6_Witness ==
    /\ DrainedWorkflowQueried
    /\ Len(active_workflows[call.wid]) = 2
    /\ Len(completed_tasks) = 2
    /\ Range(completed_tasks) = Range(active_workflows[call.wid])
    /\ held = {}
    /\ task_queue = <<>>
    /\ ret.completed = 2
    /\ ret.progress = <<1, 1>>

(***************************************************************************)
(* SpecDeps: the orchestrator called with tasks that declare dependencies, *)
(* as the product-launch demo declares them: the task of higher priority   *)
(* depends on the one of lower priority.                                   *)
(***************************************************************************)
\* depends_on is what the caller declared for the task; the orchestrator
\* reads task_id and priority only.
DepTasks ==
    {[task_id |-> "t1", priority |-> 1, depends_on |-> {}],
     [task_id |-> "t2", priority |-> 5, depends_on |-> {"t1"}]}

DepLists == SeqsUpTo(DepTasks, MaxQueue)

DAddTask ==
    \E t \in DepTasks :
        /\ Len(task_queue) < MaxQueue
        /\ add_task(t)
        /\ UNCHANGED <<held, removed_completed, arrivals, enqueued, adding>>
        /\ UNCHANGED <<team_vars, callers, registry_vars>>

DGetNextTask ==
    /\ GetNextTaskCall
    /\ UNCHANGED <<team_vars, callers, registry_vars>>

DCompleteTask ==
    \E t \in DepTasks :
        /\ Len(completed_tasks) < MaxCompleted
        /\ complete_task(t)
        /\ UNCHANGED <<held, removed_completed, arrivals, enqueued, adding>>
        /\ UNCHANGED <<team_vars, callers, registry_vars>>

DCreateWorkflow ==
    \E wid \in CreateIds, tasks \in DepLists :
        /\ Len(task_queue) + Len(tasks) <= MaxQueue
        /\ create_workflow(wid, tasks)
        /\ UNCHANGED <<held, removed_completed, arrivals, enqueued, adding>>
        /\ UNCHANGED <<team_vars, callers, registry_vars>>

DGetWorkflowStatus ==
    /\ GetWorkflowStatusCall
    /\ UNCHANGED <<team_vars, callers, registry_vars>>

DExecuteWorkflow ==
    /\ ExecuteWorkflowCall
    /\ UNCHANGED <<team_vars, callers, registry_vars>>

NextDeps ==
    \/ DAddTask
    \/ DGetNextTask
    \/ DCompleteTask
    \/ DCreateWorkflow
    \/ DGetWorkflowStatus
    \/ DExecuteWorkflow

SpecDeps == Init /\ [][NextDeps]_vars

\* C16: every task in completed_tasks that declares dependencies comes after
\* a completed task of each id it depends on.
C16_DependenciesCompletedFirst ==
    \A i \in 1..Len(completed_tasks) :
        completed_tasks[i].depends_on \subseteq Ids(SubSeq(completed_tasks, 1, i - 1))

(***************************************************************************)
(* SpecIds: the orchestrator with two workflow ids to create, and the ids  *)
(* of the tasks that were ever queued kept in enqueued.                    *)
(***************************************************************************)
TwoWorkflowIds == {"wf1", "wf2"}

IAddTask ==
    \E t \in CallerTasks :
        /\ Len(task_queue) < MaxQueue
        /\ add_task(t)
        /\ enqueued' = enqueued \cup {t.task_id}
        /\ UNCHANGED <<held, removed_completed, arrivals, adding>>
        /\ UNCHANGED <<team_vars, callers, registry_vars>>

IGetNextTask ==
    /\ GetNextTaskCall
    /\ UNCHANGED <<team_vars, callers, registry_vars>>

ICompleteTask ==
    \E t \in CallerTasks :
        /\ Len(completed_tasks) < MaxCompleted
        /\ complete_task(t)
        /\ UNCHANGED <<held, removed_completed, arrivals, enqueued, adding>>
        /\ UNCHANGED <<team_vars, callers, registry_vars>>

ICreateWorkflow ==
    \E wid \in TwoWorkflowIds, tasks \in CallerLists :
        /\ Len(task_queue) + Len(tasks) <= MaxQueue
        /\ create_workflow(wid, tasks)
        /\ enqueued' = enqueued \cup Ids(tasks)
        /\ UNCHANGED <<held, removed_completed, arrivals, adding>>
        /\ UNCHANGED <<team_vars, callers, registry_vars>>

NextIds ==
    \/ IAddTask
    \/ IGetNextTask
    \/ ICompleteTask
    \/ ICreateWorkflow

SpecIds == Init /\ [][NextIds]_vars

\* C17: no task id is in task_queue twice, none is queued a second time in
\* its lifetime, no two registered workflows share a task id, and the task
\* ids of a registered workflow stay what they were at its creation.
C17_TaskIdsQueuedOnceWorkflowsFixed ==
    /\ [](Cardinality(Ids(task_queue)) = Len(task_queue))
    /\ [](\A w1, w2 \in DOMAIN active_workflows :
             w1 # w2 => Ids(active_workflows[w1]) \cap Ids(active_workflows[w2]) = {})
    /\ [][call'.op \in {"add_task", "create_workflow"}
             => /\ Ids(call'.tasks) \cap enqueued = {}
                /\ Cardinality(Ids(call'.tasks)) = Len(call'.tasks)]_vars
    /\ [][\A w \in DOMAIN active_workflows :
             /\ w \in DOMAIN active_workflows'
             /\ Ids(active_workflows'[w]) = Ids(active_workflows[w])]_vars

\* C18: get_workflow_status counts a workflow task completed exactly when a
\* task of the same id is in completed_tasks, and pending exactly when a
\* task of the same id is in task_queue, whatever the other fields.
C18_StatusCountsByTaskId ==
    [][(call'.op = "get_workflow_status" /\ Registered(call'.wid))
        => LET tasks == active_workflows[call'.wid]
           IN  /\ ret'.completed
                    = Len(SelectSeq(tasks, LAMBDA t : t.task_id \in Ids(completed_tasks)))
               /\ ret'.pending
                    = Len(SelectSeq(tasks, LAMBDA t : t.task_id \in Ids(task_queue)))]_vars

(***************************************************************************)
(* SpecConcurrent: add_task called from several threads beside             *)
(* get_next_task. The orchestrator holds no lock, so a step of one call    *)
(* may come between the append and the sort of another.                    *)
(***************************************************************************)
\* self.task_queue.append(task)
AddTaskAppend ==
    \E t \in TaskMessage :
        /\ Len(task_queue) < CMaxQueue
        /\ adding < MaxAdding
        /\ task_queue' = Append(task_queue, t)
        /\ adding' = adding + 1
        /\ arrivals' = Append(arrivals, t)
        /\ UNCHANGED <<completed_tasks, active_workflows, call, ret, held, removed_completed,
                       enqueued>>

\* self.task_queue.sort(key=lambda t: t.priority, reverse=True), and return
AddTaskSort ==
    /\ adding > 0
    /\ task_queue' = sort_by_priority(task_queue)
    /\ adding' = adding - 1
    /\ call' = [op |-> "add_task", wid |-> "", tasks |-> <<>>]
    /\ ret' = [status |-> "None"]
    /\ UNCHANGED <<completed_tasks, active_workflows, held, removed_completed, arrivals,
                   enqueued>>

TGetNextTask ==
    /\ get_next_task
    /\ arrivals' = IF task_queue # <<>> THEN RemoveFirst(arrivals, Head(task_queue))
                   ELSE arrivals
    /\ UNCHANGED <<held, removed_completed, enqueued, adding>>

NextConcurrent ==
    \/ AddTaskAppend /\ UNCHANGED <<team_vars, callers, registry_vars>>
    \/ AddTaskSort /\ UNCHANGED <<team_vars, callers, registry_vars>>
    \/ TGetNextTask /\ UNCHANGED <<team_vars, callers, registry_vars>>

SpecConcurrent == Init /\ [][NextConcurrent]_vars

\* C19: with add_task calls in flight, every get_next_task on a non-empty
\* queue still returns a task whose priority no task then in the queue
\* exceeds, the earliest added among those of that priority.
C19_ConcurrentPopsMaxPriorityEarliest ==
    [][(call'.op = "get_next_task" /\ ret'.status = "task")
        => /\ \A t \in Range(task_queue) : t.priority <= ret'.task.priority
           /\ ret'.task = EarliestMax(arrivals)]_vars

(***************************************************************************)
(* SpecRunners: two Teams, each in run on a thread of its own, over one    *)
(* cost manager: total_cost and max_budget are shared, and a step of one   *)
(* Team may come between any two statements of the other.                  *)
(***************************************************************************)
Runners == {"r1", "r2"}

Runner(pc, n) == [pc |-> pc, n_round |-> n]

At(r, pc) == runners[r].pc = pc

\* Team r moves to pc with n rounds left; the other Team stays.
Goes(r, pc, n) == runners' = [runners EXCEPT ![r] = Runner(pc, n)]

TeamFrame == UNCHANGED <<team_pc, n_round, investment, max_budget, is_idle, env_runs,
                         archived, raised, outcome, rounds_asked>>

\* run(n_round=n) is called on Team r.
RRun(r) ==
    \E n \in 0..MaxRounds :
        /\ At(r, "idle")
        /\ Goes(r, "while", n)
        /\ UNCHANGED total_cost
        /\ TeamFrame

\* while n_round > 0: if self.env.is_idle: break
RLoopHead(r) ==
    \E idle \in BOOLEAN :
        /\ At(r, "while")
        /\ Goes(r, IF runners[r].n_round > 0 /\ ~idle THEN "decrement" ELSE "archive",
                runners[r].n_round)
        /\ UNCHANGED total_cost
        /\ TeamFrame

\* n_round -= 1
RDecrement(r) ==
    /\ At(r, "decrement")
    /\ Goes(r, "check_balance", runners[r].n_round - 1)
    /\ UNCHANGED total_cost
    /\ TeamFrame

\* self._check_balance()
RCheckBalance(r) ==
    /\ At(r, "check_balance")
    /\ Goes(r, IF InsufficientFunds(total_cost, max_budget) THEN "raised" ELSE "env_run",
            runners[r].n_round)
    /\ UNCHANGED total_cost
    /\ TeamFrame

\* await self.env.run(): the round starts.
REnvRun(r) ==
    /\ At(r, "env_run")
    /\ Goes(r, "in_round", runners[r].n_round)
    /\ UNCHANGED total_cost
    /\ TeamFrame

\* A role of Team r spends during the round.
RSpend(r) ==
    /\ At(r, "in_round")
    /\ total_cost < MaxCost
    /\ total_cost' \in CostsAfterRun(total_cost + 1)
    /\ UNCHANGED runners
    /\ TeamFrame

\* env.run returns.
REnvReturn(r) ==
    /\ At(r, "in_round")
    /\ Goes(r, "while", runners[r].n_round)
    /\ UNCHANGED total_cost
    /\ TeamFrame

\* self.env.archive(auto_archive); return self.env.history
RArchive(r) ==
    /\ At(r, "archive")
    /\ Goes(r, "returned", runners[r].n_round)
    /\ UNCHANGED total_cost
    /\ TeamFrame

\* NoMoneyException leaves run.
RPropagate(r) ==
    /\ At(r, "raised")
    /\ Goes(r, serialize_decorator("NoMoneyException"), runners[r].n_round)
    /\ UNCHANGED total_cost
    /\ TeamFrame

InitRunners ==
    /\ InitOrchestrator
    /\ team_pc = "idle"
    /\ n_round = 0
    /\ investment \in 0..MaxBudget
    /\ max_budget = investment
    /\ total_cost \in 0..MaxCost
    /\ is_idle = FALSE
    /\ env_runs = 0
    /\ archived = 0
    /\ raised = ""
    /\ outcome = ""
    /\ rounds_asked = 0
    /\ runners = [r \in Runners |-> Runner("idle", 0)]
    /\ NoCallers
    /\ InitRegistry

NextRunners ==
    \/ (\E r \in Runners : RRun(r)) /\ UNCHANGED <<orch_vars, callers, registry_vars>>
    \/ (\E r \in Runners : RLoopHead(r)) /\ UNCHANGED <<orch_vars, callers, registry_vars>>
    \/ (\E r \in Runners : RDecrement(r)) /\ UNCHANGED <<orch_vars, callers, registry_vars>>
    \/ (\E r \in Runners : RCheckBalance(r)) /\ UNCHANGED <<orch_vars, callers, registry_vars>>
    \/ (\E r \in Runners : REnvRun(r)) /\ UNCHANGED <<orch_vars, callers, registry_vars>>
    \/ (\E r \in Runners : RSpend(r)) /\ UNCHANGED <<orch_vars, callers, registry_vars>>
    \/ (\E r \in Runners : REnvReturn(r)) /\ UNCHANGED <<orch_vars, callers, registry_vars>>
    \/ (\E r \in Runners : RArchive(r)) /\ UNCHANGED <<orch_vars, callers, registry_vars>>
    \/ (\E r \in Runners : RPropagate(r)) /\ UNCHANGED <<orch_vars, callers, registry_vars>>

SpecRunners == InitRunners /\ [][NextRunners]_vars

\* C20: no Team starts a round (env.run) in a state where the shared
\* total_cost >= max_budget, whatever the other Team spent meanwhile.
C20_NoRoundStartsOverSharedBudget ==
    [][\A r \in Runners :
          (At(r, "env_run") /\ runners'[r].pc = "in_round") => total_cost < max_budget]_vars

(***************************************************************************)
(* SpecGivenQueue: an orchestrator constructed with a task_queue, in any   *)
(* order (WorkflowOrchestrator(task_queue=[...])), then called as in Spec. *)
(***************************************************************************)
InitGivenQueue ==
    /\ task_queue \in TaskLists
    /\ completed_tasks = <<>>
    /\ active_workflows = <<>>
    /\ call = NoCall
    /\ ret = [status |-> "None"]
    /\ held = {}
    /\ removed_completed = {}
    /\ arrivals = <<>>
    /\ enqueued = {}
    /\ adding = 0
    /\ NoTeam
    /\ NoCallers
    /\ InitRegistry

SpecGivenQueue == InitGivenQueue /\ [][Next]_vars

\* C21: in every state of an orchestrator, whatever it was constructed with
\* and whatever was called, task_queue is in order of non-increasing
\* priority, so that its front is a task of maximum priority.
C21_QueueOrderedByPriority ==
    \A i, j \in 1..Len(task_queue) :
        i < j => task_queue[i].priority >= task_queue[j].priority

\* C23: at the head of the loop an idle environment sends run to the archive
\* with nothing raised and nothing decremented, whatever total_cost and
\* max_budget are; from there run archives and returns the history; and the
\* round decrement and the balance check are reached only with the
\* environment not idle.
C23_IdleCheckComesFirst ==
    /\ [][(team_pc = "while" /\ is_idle)
             => (team_pc' = "archive" /\ raised' = "" /\ n_round' = n_round)]_vars
    /\ [][team_pc = "archive"
             => (team_pc' = "done" /\ outcome' = "history" /\ archived' = archived + 1
                 /\ raised' = "")]_vars
    /\ [](team_pc \in {"decrement", "check_balance"} => ~is_idle)

\* run returned the history from an idle environment with the budget spent
\* and rounds left.
C23_Witness ==
    /\ team_pc = "done"
    /\ outcome = "history"
    /\ archived = 1
    /\ is_idle
    /\ n_round > 0
    /\ total_cost >= max_budget
    /\ raised = ""

(***************************************************************************)
(* SpecThreads: get_next_task and execute_workflow called from threads of  *)
(* their own on one orchestrator. The orchestrator holds no lock, so a     *)
(* step of one thread may come between the test of the queue (line 184)    *)
(* and the pop (line 185) of another.                                      *)
(***************************************************************************)
Threads == {"c1", "c2"}

\* A thread that has not called yet: task is the task it popped and has not
\* recorded (none, or one), out is what its call returned.
NotCalled == [pc |-> "idle", op |-> "", wid |-> "", task |-> <<>>, results |-> <<>>,
              out |-> [status |-> "None"]]

\* The task lists of this caller: no task twice.
DistinctLists == {l \in CallerLists : Cardinality(Range(l)) = Len(l)}

ThreadFrame ==
    UNCHANGED <<active_workflows, call, ret, held, removed_completed, arrivals, enqueued,
                adding, team_vars, registry_vars>>

\* create_workflow, once, by the owner of the orchestrator.
TCreateWorkflow ==
    \E tasks \in DistinctLists :
        /\ ~Registered("wf1")
        /\ create_workflow("wf1", tasks)
        /\ UNCHANGED <<held, removed_completed, arrivals, enqueued, adding>>
        /\ UNCHANGED <<team_vars, callers, registry_vars>>

\* Thread c calls get_next_task.
TCallGetNextTask(c) ==
    /\ callers[c].pc = "idle"
    /\ callers' = [callers EXCEPT ![c] = [NotCalled EXCEPT !.pc = "test",
                                                          !.op = "get_next_task"]]
    /\ UNCHANGED <<task_queue, completed_tasks>>
    /\ ThreadFrame

\* Thread c calls execute_workflow(wid): lines 219-222.
TCallExecuteWorkflow(c) ==
    \E wid \in WorkflowIds :
        /\ callers[c].pc = "idle"
        /\ callers' = [callers EXCEPT ![c] =
                          IF Registered(wid)
                          THEN [NotCalled EXCEPT !.pc = "test", !.op = "execute_workflow",
                                                 !.wid = wid]
                          ELSE [NotCalled EXCEPT !.pc = "returned", !.op = "execute_workflow",
                                                 !.wid = wid,
                                                 !.out = [error |-> "Workflow not found"]]]
        /\ UNCHANGED <<task_queue, completed_tasks>>
        /\ ThreadFrame

\* if self.task_queue: (line 184). On an empty queue get_next_task returns
\* None, and execute_workflow breaks out of its loop and returns.
TTestQueue(c) ==
    /\ callers[c].pc = "test"
    /\ callers' = [callers EXCEPT ![c] =
                      IF task_queue # <<>> THEN [@ EXCEPT !.pc = "pop"]
                      ELSE IF @.op = "get_next_task" THEN [@ EXCEPT !.pc = "returned"]
                      ELSE [@ EXCEPT !.pc = "returned",
                                     !.out = [workflow_id |-> callers[c].wid,
                                              status |-> "completed",
                                              results |-> callers[c].results]]]
    /\ UNCHANGED <<task_queue, completed_tasks>>
    /\ ThreadFrame

\* return self.task_queue.pop(0) (line 185): IndexError on an empty list.
TPop(c) ==
    /\ callers[c].pc = "pop"
    /\ IF task_queue = <<>>
       THEN /\ callers' = [callers EXCEPT ![c] = [@ EXCEPT !.pc = "raised",
                                                           !.out = [status |-> "raised",
                                                                    exception |-> "IndexError"]]]
            /\ UNCHANGED task_queue
       ELSE /\ task_queue' = PopFront(task_queue).queue
            /\ callers' = [callers EXCEPT ![c] =
                              IF @.op = "get_next_task"
                              THEN [@ EXCEPT !.pc = "returned",
                                             !.out = [status |-> "task",
                                                      task |-> PopFront(task_queue).task]]
                              ELSE [@ EXCEPT !.pc = "record",
                                             !.task = <<PopFront(task_queue).task>>]]
    /\ UNCHANGED completed_tasks
    /\ ThreadFrame

\* execute_workflow records the result and calls complete_task (lines 229-233).
TRecord(c) ==
    /\ callers[c].pc = "record"
    /\ completed_tasks' = CompletedAfter(completed_tasks, callers[c].task[1])
    /\ callers' = [callers EXCEPT ![c] =
                      [@ EXCEPT !.pc = "test", !.task = <<>>,
                                !.results = Append(callers[c].results,
                                                   TaskResult(callers[c].task[1]))]]
    /\ UNCHANGED task_queue
    /\ ThreadFrame

InitThreads ==
    /\ InitOrchestrator
    /\ NoTeam
    /\ callers = [c \in Threads |-> NotCalled]
    /\ InitRegistry

NextThreads ==
    \/ TCreateWorkflow
    \/ \E c \in Threads : TCallGetNextTask(c)
    \/ \E c \in Threads : TCallExecuteWorkflow(c)
    \/ \E c \in Threads : TTestQueue(c)
    \/ \E c \in Threads : TPop(c)
    \/ \E c \in Threads : TRecord(c)

SpecThreads == InitThreads /\ [][NextThreads]_vars

\* The number of elements of s that satisfy Test.
Count(s, Test(_)) == Len(SelectSeq(s, Test))

\* The threads that hold task t: popped by execute_workflow and not yet
\* recorded, or returned by get_next_task.
Holders(t) ==
    {c \in Threads : callers[c].task = <<t>> \/ callers[c].out = [status |-> "task", task |-> t]}

\* The result entries for task t in the threads' results.
RECURSIVE ResultsFor(_, _)
ResultsFor(t, cs) ==
    IF cs = {} THEN 0
    ELSE LET c == CHOOSE x \in cs : TRUE
         IN  Count(callers[c].results, LAMBDA r : r.task_id = t.task_id)
             + ResultsFor(t, cs \ {c})

\* C22: every task queued is in the queue, or was popped by exactly one
\* thread, has one result entry once recorded and is in completed_tasks
\* once; and no thread fails on a queue another emptied between its test
\* and its pop.
C22_EachTaskPoppedOnceNoCallerFails ==
    /\ \A c \in Threads : callers[c].pc # "raised"
    /\ Registered("wf1") =>
          \A t \in Range(active_workflows["wf1"]) :
              /\ Count(task_queue, LAMBDA x : x = t) + Cardinality(Holders(t))
                    + Count(completed_tasks, LAMBDA x : x = t) = 1
              /\ ResultsFor(t, Threads) = Count(completed_tasks, LAMBDA x : x = t)

(***************************************************************************)
(* app.py: the registry. Each store maps an id to the dict stored under    *)
(* it, with the fields the checks read; an Optional[int] is <<>> for None  *)
(* and <<n>> for the integer n.                                            *)
(***************************************************************************)
\* The company ids callers pass: 0, the registered ones, and one too many.
CompanyIdInputs == 0..(MaxCompanies + 1)

\* The agent id lists callers pass: registered ids and one that is not.
AgentIdLists == SeqsUpTo(1..(MaxAgents + 1), 2)

\* _next_id(kind): the counter after the call; the id returned is its value.
next_id(seq, kind) == [seq EXCEPT ![kind] = @ + 1]

\* store[key] = value
Stored(store, key, value) ==
    [k \in DOMAIN store \cup {key} |-> IF k = key THEN value ELSE store[k]]

\* The truth value Python gives an Optional[int] in `if company_id and ...`.
Truthy(opt) == opt # <<>> /\ opt[1] # 0

\* A create_workflow that checks only that the agents exist.
WorkflowErrorNoMismatch(agent_ids, company_id, agents) ==
    IF \E i \in 1..Len(agent_ids) : agent_ids[i] \notin DOMAIN agents
    THEN "agent_id not found" ELSE ""

\* create_workflow's loop (lines 128-132): the message of the ValueError the
\* first offending agent id raises, "" when none does.
WorkflowError(agent_ids, company_id, agents) ==
    LET bad == {i \in 1..Len(agent_ids) :
                   \/ agent_ids[i] \notin DOMAIN agents
                   \/ agents[agent_ids[i]].company_id # company_id}
        first == CHOOSE i \in bad : \A j \in bad : i <= j
    IN  IF bad = {} THEN ""
        ELSE IF agent_ids[first] \notin DOMAIN agents THEN "agent_id not found"
        ELSE "agent/company mismatch"

Raised(message) == [status |-> "ValueError", message |-> message]

RegistryFrame == UNCHANGED <<task_queue, completed_tasks, active_workflows, held,
                            removed_completed, arrivals, enqueued, adding, team_vars, callers>>

register_company ==
    LET seq == next_id(id_seq, "company")
        id == seq.company
    IN  /\ id_seq' = seq
        /\ COMPANIES' = Stored(COMPANIES, id, [id |-> id])
        /\ call' = [op |-> "register_company"]
        /\ ret' = [status |-> "stored", id |-> id]
        /\ UNCHANGED <<USERS, AGENTS, WORKFLOWS>>

register_user(company_id) ==
    /\ call' = [op |-> "register_user", company_id |-> company_id]
    /\ IF Truthy(company_id) /\ company_id[1] \notin DOMAIN COMPANIES
       THEN /\ ret' = Raised("company_id not found")
            /\ UNCHANGED <<USERS, id_seq>>
       ELSE LET seq == next_id(id_seq, "user")
                id == seq.user
            IN  /\ id_seq' = seq
                /\ USERS' = Stored(USERS, id, [id |-> id, company_id |-> company_id])
                /\ ret' = [status |-> "stored", id |-> id]
    /\ UNCHANGED <<COMPANIES, AGENTS, WORKFLOWS>>

create_agent(company_id) ==
    /\ call' = [op |-> "create_agent"]
    /\ IF company_id \notin DOMAIN COMPANIES
       THEN /\ ret' = Raised("company_id not found")
            /\ UNCHANGED <<AGENTS, id_seq>>
       ELSE LET seq == next_id(id_seq, "agent")
                id == seq.agent
            IN  /\ id_seq' = seq
                /\ AGENTS' = Stored(AGENTS, id, [id |-> id, company_id |-> company_id])
                /\ ret' = [status |-> "stored", id |-> id]
    /\ UNCHANGED <<USERS, COMPANIES, WORKFLOWS>>

\* app.py create_workflow(name, agent_ids, company_id).
api_create_workflow(agent_ids, company_id) ==
    /\ call' = [op |-> "create_workflow"]
    /\ IF WorkflowError(agent_ids, company_id, AGENTS) # ""
       THEN /\ ret' = Raised(WorkflowError(agent_ids, company_id, AGENTS))
            /\ UNCHANGED <<WORKFLOWS, id_seq>>
       ELSE LET seq == next_id(id_seq, "workflow")
                id == seq.workflow
            IN  /\ id_seq' = seq
                /\ WORKFLOWS' = Stored(WORKFLOWS, id, [id |-> id, agent_ids |-> agent_ids,
                                                       company_id |-> company_id])
                /\ ret' = [status |-> "stored", id |-> id]
    /\ UNCHANGED <<USERS, COMPANIES, AGENTS>>

RegisterCompanyCall ==
    /\ id_seq.company < MaxCompanies
    /\ register_company
    /\ RegistryFrame

CreateAgentCall ==
    \E company_id \in CompanyIdInputs :
        /\ id_seq.agent < MaxAgents \/ company_id \notin DOMAIN COMPANIES
        /\ create_agent(company_id)
        /\ RegistryFrame

ApiCreateWorkflowCall ==
    \E agent_ids \in AgentIdLists, company_id \in CompanyIdInputs :
        /\ id_seq.workflow < MaxWorkflows \/ WorkflowError(agent_ids, company_id, AGENTS) # ""
        /\ api_create_workflow(agent_ids, company_id)
        /\ RegistryFrame

RegisterUserCall ==
    \E company_id \in {<<>>} \cup {<<n>> : n \in CompanyIdInputs} :
        /\ \/ id_seq.user < MaxUsers
           \/ Truthy(company_id) /\ company_id[1] \notin DOMAIN COMPANIES
        /\ register_user(company_id)
        /\ RegistryFrame

NextRegistry ==
    \/ RegisterCompanyCall
    \/ CreateAgentCall
    \/ ApiCreateWorkflowCall

SpecRegistry == Init /\ [][NextRegistry]_vars

NextUsers ==
    \/ RegisterCompanyCall
    \/ RegisterUserCall

SpecUsers == Init /\ [][NextUsers]_vars

\* Every dict is stored under its own id, and the ids of a store are those
\* its counter has given out.
IdsDistinct(store, kind) ==
    /\ DOMAIN store = 1..id_seq[kind]
    /\ \A k \in DOMAIN store : store[k].id = k

\* C24: every stored agent's company_id is a key of COMPANIES; every stored
\* workflow's agent_ids are keys of AGENTS whose company_id is the
\* workflow's; the ids of each store are distinct; and a call rejected with
\* ValueError leaves the four stores and the counters as they were.
C24_RegistryReferentialIntegrity ==
    /\ [](\A a \in DOMAIN AGENTS : AGENTS[a].company_id \in DOMAIN COMPANIES)
    /\ [](\A w \in DOMAIN WORKFLOWS :
             \A i \in 1..Len(WORKFLOWS[w].agent_ids) :
                /\ WORKFLOWS[w].agent_ids[i] \in DOMAIN AGENTS
                /\ AGENTS[WORKFLOWS[w].agent_ids[i]].company_id = WORKFLOWS[w].company_id)
    /\ [](/\ IdsDistinct(COMPANIES, "company")
          /\ IdsDistinct(AGENTS, "agent")
          /\ IdsDistinct(WORKFLOWS, "workflow")
          /\ IdsDistinct(USERS, "user"))
    /\ [][ret'.status = "ValueError" => UNCHANGED registry_vars]_vars

\* With a workflow of two agents of company 2 stored, a create_workflow that
\* named an agent for a company that is not its own was rejected.
C24_Witness ==
    /\ DOMAIN COMPANIES = {1, 2}
    /\ DOMAIN AGENTS = {1, 2}
    /\ AGENTS[1].company_id = 2
    /\ AGENTS[2].company_id = 2
    /\ DOMAIN WORKFLOWS = {1}
    /\ WORKFLOWS[1].agent_ids = <<1, 2>>
    /\ WORKFLOWS[1].company_id = 2
    /\ call = [op |-> "create_workflow"]
    /\ ret = Raised("agent/company mismatch")

\* C25: every stored user whose company_id is not None has the id of a
\* registered company, and register_user with a company_id that is not a
\* registered company raises ValueError and stores nothing.
C25_UsersReferToRegisteredCompanies ==
    /\ [](\A u \in DOMAIN USERS :
             USERS[u].company_id # <<>> => USERS[u].company_id[1] \in DOMAIN COMPANIES)
    /\ [][(call'.op = "register_user" /\ call'.company_id # <<>>
           /\ call'.company_id[1] \notin DOMAIN COMPANIES)
             => (ret'.status = "ValueError" /\ UNCHANGED registry_vars)]_vars

====
